---- MODULE Spec2Model ----
(***************************************************************************)
(* Model of the NotiBoost browser SDK transport core (src/src/index.ts):   *)
(* the NotiBoostClient constructor and the retry loop of                   *)
(* NotiBoostClient.request, with the network, the timers and the caller    *)
(* as the environment.                                                     *)
(*                                                                         *)
(* An optional JavaScript value (undefined / absent) is a sequence of      *)
(* length 0 or 1: <<>> is "absent", <<v>> is the value v.  NaN is the      *)
(* absent number.  A header value is a sequence of one-character strings.  *)
(***************************************************************************)
EXTENDS Integers, Sequences, FiniteSets, TLC

VARIABLES
    config,      \* the NotiBoostConfig handed to the constructor
    ctor,        \* "new" | "ok" | "threw": how construction ended
    client,      \* the instance fields apiKey, baseURL, timeout, retries
    pc,          \* position of the one request call
    method,      \* request(): argument method
    path,        \* request(): argument path
    data,        \* request(): argument data, the caller's own object (<<>> is null)
    options,     \* request(): argument options, the caller's own object
    url,         \* request(): const url
    headers,     \* request(): const headers
    attempt,     \* request(): loop counter
    lastError,   \* request(): let lastError (<<>> while unassigned)
    timers,      \* attempts whose timeout timer is still pending
    elapsed,     \* the timeout has elapsed since the current attempt started
    resp,        \* the response of the current attempt (<<>> before it arrives)
    sleepMs,     \* argument of the sleep in progress / last slept (<<>> is NaN)
    sleeps,      \* number of sleeps started by the call
    outcome,     \* <<>> while running, else <<[kind, value]>>: returned or thrown
    sent,        \* the fetch calls issued so far, in order
    mutations,   \* number of times the caller changed data or options.headers
    retryableOnly, \* history: every concluded attempt ended in 429, timeout or network failure
    failures,    \* history: number of attempts that ended in a timeout or network failure
    now,         \* the clock read by new Date()
    facade,      \* the facade call in progress and the fetch calls of earlier calls
    peer         \* the locals of a second request call running on the same client

vars == <<config, ctor, client, pc, method, path, data, options, url, headers,
          attempt, lastError, timers, elapsed, resp, sleepMs, sleeps, outcome,
          sent, mutations, retryableOnly, failures, now, facade, peer>>

----------------------------------------------------------------------------
(* Bounds of the model *)

\* configured retries range over -1 .. MaxRetries, and absent
MaxRetries == 2
\* the caller changes its payload / options object at most this often per call
MaxMutations == 1
\* the clock advances at most this many ticks
MaxClock == 2
\* the caller makes at most this many facade calls, one after the other
MaxCalls == 2

(* Program constants *)
DefaultBaseURL == "https://api.notiboost.com"
DefaultTimeout == 30000
DefaultRetries == 3

----------------------------------------------------------------------------
(* JavaScript helpers *)

None == <<>>
Some(v) == <<v>>
NaN == <<>>

\* mutant: the defaults win over the caller's entries
Spread_DefaultsWin(f, g) == f @@ g

\* f overridden / extended by g (object spread {...f, ...g})
Spread(f, g) == g @@ f

RECURSIVE Pow2(_)
Pow2(n) == IF n <= 0 THEN 1 ELSE 2 * Pow2(n - 1)

Digits == <<"0", "1", "2", "3", "4", "5", "6", "7", "8", "9">>
IsDigit(c) == \E i \in 1..10 : Digits[i] = c
DigitVal(c) == (CHOOSE i \in 1..10 : Digits[i] = c) - 1
IsSpace(c) == c = " "

RECURSIVE StripSpace(_)
StripSpace(s) == IF s # <<>> /\ IsSpace(Head(s)) THEN StripSpace(Tail(s)) ELSE s

RECURSIVE DigitPrefix(_)
DigitPrefix(s) ==
    IF s # <<>> /\ IsDigit(Head(s)) THEN <<Head(s)>> \o DigitPrefix(Tail(s)) ELSE <<>>

RECURSIVE DecValue(_)
DecValue(d) ==
    IF d = <<>> THEN 0 ELSE 10 * DecValue(SubSeq(d, 1, Len(d) - 1)) + DigitVal(d[Len(d)])

\* parseInt(s, 10): leading white space, an optional sign, then the longest
\* run of decimal digits; NaN when there is no digit
ParseInt(s) ==
    LET t == StripSpace(s)
        signed == t # <<>> /\ Head(t) \in {"-", "+"}
        u == IF signed THEN Tail(t) ELSE t
        d == DigitPrefix(u)
    IN  IF d = <<>> THEN NaN
        ELSE Some((IF signed /\ Head(t) = "-" THEN -1 ELSE 1) * DecValue(d))

\* x * 1000 on a number that may be NaN
TimesThousand(x) == IF x = NaN THEN NaN ELSE Some(x[1] * 1000)

\* JSON.stringify of an object: its key/value pairs in key order; the value
\* of "events" is an array of objects, every other value a string
KeyOrder == <<"event_id", "event_name", "user_id", "name", "email", "occurred_at",
              "events">>
RECURSIVE StringifyFrom(_, _)
StringifyFrom(obj, i) ==
    IF i > Len(KeyOrder) THEN <<>>
    ELSE (IF KeyOrder[i] \notin DOMAIN obj THEN <<>>
          ELSE IF KeyOrder[i] = "events"
          THEN << <<"events", [n \in 1..Len(obj["events"]) |->
                                 StringifyFrom(obj["events"][n], 1)]>> >>
          ELSE << <<KeyOrder[i], obj[KeyOrder[i]]>> >>)
         \o StringifyFrom(obj, i + 1)
Stringify(obj) == StringifyFrom(obj, 1)

\* new Date().toISOString() at clock value t
ToISOString(t) == "2026-11-06T00:00:0" \o ToString(t) \o ".000Z"

----------------------------------------------------------------------------
(* Inputs *)

ApiKeys == {None, Some(""), Some("key")}
RetriesGiven == {None} \cup {Some(r) : r \in -1..MaxRetries}
Configs ==
    {[apiKey |-> k, baseURL |-> None, timeout |-> None, retries |-> r] :
        k \in ApiKeys, r \in RetriesGiven}
    \cup {[apiKey |-> Some("key"), baseURL |-> Some("https://eu.example"),
           timeout |-> Some(5000), retries |-> Some(1)]}

NoClient == [apiKey |-> "", baseURL |-> "", timeout |-> 0, retries |-> 0]

EventA == ("event_id" :> "evt_001") @@ ("event_name" :> "order_created")
          @@ ("user_id" :> "u_123")
\* the calls the caller makes: <<method, path, data>>
Calls ==
    { <<"POST", "/api/v1/events", Some(EventA)>>,
      <<"GET", "/api/v1/users/u_123", None>>,
      <<"DELETE", "/api/v1/users/u_123", Some(EventA)>> }

IdemHeaders(k) == ("Idempotency-Key" :> k)
OptionsGiven == {[headers |-> None], [headers |-> Some(IdemHeaders("idem-1"))]}

Statuses == {200, 299, 300, 429, 500}
\* response bodies: a JSON object with a message, one without, JSON null,
\* an empty or unparseable body
Bodies == {"objectWithMessage", "object", "null", "unparseable"}
\* Retry-After header values: absent, "", "0", "2", "Wed" (an HTTP-date)
RetryAfterValues == {None, Some(<<>>), Some(<<"0">>), Some(<<"2">>),
                     Some(<<"W", "e", "d">>)}
\* every status with every body, and 429 with every Retry-After value
Responses ==
    {[status |-> s, body |-> b, retryAfter |-> None] : s \in Statuses, b \in Bodies}
    \cup {[status |-> 429, body |-> "object", retryAfter |-> h] :
            h \in RetryAfterValues}

----------------------------------------------------------------------------
(* NotiBoostError and the other values request can raise.  The field       *)
(* attempt says which attempt created the error object (its identity).     *)

NotiBoostError(message, statusCode, response, a) ==
    [kind |-> "NotiBoostError", message |-> message, statusCode |-> Some(statusCode),
     response |-> Some(response), attempt |-> a]

\* reading a property of null
TypeError(a) ==
    [kind |-> "TypeError", message |-> "Cannot read properties of null",
     statusCode |-> None, response |-> None, attempt |-> a]

\* fetch rejected because controller.abort() was called
AbortError(a) ==
    [kind |-> "AbortError", message |-> "The operation was aborted",
     statusCode |-> None, response |-> None, attempt |-> a]

\* fetch rejected because of a network-level failure
NetworkError(a) ==
    [kind |-> "NetworkError", message |-> "Failed to fetch",
     statusCode |-> None, response |-> None, attempt |-> a]

----------------------------------------------------------------------------
(* NotiBoostClient.constructor *)

\* a || b on an optional value: b when a is absent or falsy
OrElse(opt, falsy, default) ==
    IF opt = None \/ opt[1] = falsy THEN default ELSE opt[1]

\* mutant: only an absent key is rejected, an empty one is accepted
ApiKeyMissing_AbsentOnly(cfg) == cfg.apiKey = None

ApiKeyMissing(cfg) == cfg.apiKey = None \/ cfg.apiKey[1] = ""

EffectiveRetries(cfg) == OrElse(cfg.retries, 0, DefaultRetries)

Construct ==
    /\ ctor = "new"
    /\ IF ApiKeyMissing(config)
       THEN /\ ctor' = "threw"
            /\ client' = client
       ELSE /\ ctor' = "ok"
            /\ client' = [apiKey   |-> config.apiKey[1],
                          baseURL  |-> OrElse(config.baseURL, "", DefaultBaseURL),
                          timeout  |-> OrElse(config.timeout, 0, DefaultTimeout),
                          retries  |-> EffectiveRetries(config)]
    /\ UNCHANGED <<config, pc, method, path, data, options, url, headers, attempt,
                   lastError, timers, elapsed, resp, sleepMs, sleeps, outcome,
                   sent, mutations, retryableOnly, now, facade, peer, failures>>

----------------------------------------------------------------------------
(* NotiBoostClient.request *)

BuildHeaders(opts) ==
    LET defaults == ("Authorization" :> ("Bearer " \o client.apiKey))
                    @@ ("Content-Type" :> "application/json")
    IN  IF opts.headers = None THEN defaults ELSE Spread(defaults, opts.headers[1])

\* mutant: the headers are rebuilt from the caller's options on every attempt
AttemptHeaders_Rebuilt(h, opts) == BuildHeaders(opts)

\* the headers of fetchOptions: the object built before the loop
AttemptHeaders(h, opts) == h

\* mutant: occurred_at is taken from the clock when the attempt is built
AttemptBody_StampsPerAttempt(m, d) ==
    IF d # None /\ m \in {"POST", "PUT"}
    THEN Some(Stringify(IF "occurred_at" \in DOMAIN d[1]
                        THEN [d[1] EXCEPT !["occurred_at"] = ToISOString(now)]
                        ELSE d[1]))
    ELSE None

\* fetchOptions.body: set only for a truthy data and POST or PUT
AttemptBody(m, d) ==
    IF d # None /\ m \in {"POST", "PUT"} THEN Some(Stringify(d[1])) ELSE None

FetchCall(m, u, h, d, opts, a) ==
    [method |-> m, url |-> u, headers |-> AttemptHeaders(h, opts),
     body |-> AttemptBody(m, d), attempt |-> a, version |-> mutations]

\* the loop condition `attempt <= this.retries`
LoopContinues(a) == a <= client.retries

\* The loop head with attempt = a: either the next attempt runs up to its
\* `await fetch`, or the loop ends and `throw lastError` runs.
EnterLoop(a, m, u, h, d, opts, le) ==
    /\ attempt' = a
    /\ IF LoopContinues(a)
       THEN /\ pc' = "fetching"
            /\ timers' = timers \cup {a}
            /\ elapsed' = FALSE
            /\ resp' = None
            /\ sent' = Append(sent, FetchCall(m, u, h, d, opts, a))
            /\ outcome' = outcome
       ELSE /\ pc' = "done"
            /\ outcome' = Some([kind |-> "thrown", value |-> le])
            /\ UNCHANGED <<timers, elapsed, resp, sent>>

\* request(method, path, data, options) up to its first await
Dispatch(call, opts) ==
    /\ ctor = "ok"
    /\ pc = "idle"
    /\ method' = call[1]
    /\ path' = call[2]
    /\ data' = call[3]
    /\ options' = opts
    /\ url' = client.baseURL \o call[2]
    /\ headers' = BuildHeaders(opts)
    /\ lastError' = None
    /\ EnterLoop(0, call[1], client.baseURL \o call[2], BuildHeaders(opts), call[3],
                 opts, None)
    /\ UNCHANGED <<config, ctor, client, sleepMs, sleeps, mutations, retryableOnly,
                   failures, now, peer>>

\* request called directly
Request(call, opts) == Dispatch(call, opts) /\ UNCHANGED facade

\* `await this.sleep(ms)` begins
Sleep(ms) ==
    /\ pc' = "sleeping"
    /\ sleepMs' = ms
    /\ sleeps' = sleeps + 1
    /\ outcome' = outcome

Throw(error) ==
    /\ pc' = "done"
    /\ outcome' = Some([kind |-> "thrown", value |-> Some(error)])
    /\ UNCHANGED <<sleepMs, sleeps>>

Return(value) ==
    /\ pc' = "done"
    /\ outcome' = Some([kind |-> "returned", value |-> Some(value)])
    /\ UNCHANGED <<sleepMs, sleeps>>

\* mutant: the catch clause retries on the last iteration too
RetryAfterError_Inclusive(error) ==
    attempt <= client.retries /\ error.kind # "NotiBoostError"

\* the catch clause's test for another attempt
RetryAfterError(error) == attempt < client.retries /\ error.kind # "NotiBoostError"

\* mutant: linear instead of exponential backoff
BackoffMs_Linear(a) == (a + 1) * 1000

BackoffMs(a) == Pow2(a) * 1000

\* mutant: the failure is wrapped as a NotiBoostError with status 0
Rethrown_Wrapped(error) ==
    [kind |-> "NotiBoostError", message |-> error.message, statusCode |-> Some(0),
     response |-> None, attempt |-> error.attempt]

\* what the catch clause throws
Rethrown(error) == error

\* mutant: the backoff exponent counts the earlier network failures only
Catch_CountsFailures(error) ==
    /\ lastError' = Some(error)
    /\ IF RetryAfterError(error)
       THEN Sleep(Some(BackoffMs(failures)))
       ELSE Throw(Rethrown(error))

\* the catch clause
Catch(error) ==
    /\ lastError' = Some(error)
    /\ IF RetryAfterError(error)
       THEN Sleep(Some(BackoffMs(attempt)))
       ELSE Throw(Rethrown(error))

\* the network: fetch resolves with a response (status line and headers);
\* clearTimeout runs, and the body is awaited
FetchResolves(r) ==
    /\ pc = "fetching"
    /\ resp' = Some(r)
    /\ timers' = timers \ {attempt}
    /\ pc' = "readingBody"
    /\ UNCHANGED <<config, ctor, client, method, path, data, options, url, headers,
                   attempt, lastError, elapsed, sleepMs, sleeps, outcome, sent,
                   mutations, retryableOnly, now, facade, peer, failures>>

\* the network: fetch rejects (DNS, connection reset ...); the timer stays armed
FetchRejects ==
    /\ pc = "fetching"
    /\ Catch(NetworkError(attempt))
    /\ failures' = failures + 1
    /\ UNCHANGED <<config, ctor, client, method, path, data, options, url, headers,
                   attempt, timers, elapsed, resp, sent, mutations, retryableOnly, now, facade, peer>>

\* the timeout elapses while the attempt's timer is armed: the callback calls
\* controller.abort() and the pending fetch rejects
TimerFires ==
    /\ pc = "fetching"
    /\ attempt \in timers
    /\ ~elapsed
    /\ elapsed' = TRUE
    /\ timers' = timers \ {attempt}
    /\ Catch(AbortError(attempt))
    /\ failures' = failures + 1
    /\ UNCHANGED <<config, ctor, client, method, path, data, options, url, headers,
                   attempt, resp, sent, mutations, retryableOnly, now, facade, peer>>

\* the timeout elapses after clearTimeout, while the body is still being read:
\* nothing is scheduled any more
TimeoutPassesCleared ==
    /\ pc = "readingBody"
    /\ attempt \notin timers
    /\ ~elapsed
    /\ elapsed' = TRUE
    /\ UNCHANGED <<config, ctor, client, pc, method, path, data, options, url,
                   headers, attempt, lastError, timers, resp, sleepMs, sleeps,
                   outcome, sent, mutations, retryableOnly, now, facade, peer, failures>>

\* mutant: one controller shared by all attempts, so a late timer aborts
\* whatever fetch is pending
StaleTimerFires_SharedController(k) ==
    /\ k \in timers
    /\ k # attempt \/ pc \notin {"fetching", "readingBody"}
    /\ timers' = timers \ {k}
    /\ IF pc = "fetching"
       THEN Catch(AbortError(attempt)) /\ failures' = failures + 1
       ELSE UNCHANGED <<pc, lastError, sleepMs, sleeps, outcome, failures>>
    /\ UNCHANGED <<config, ctor, client, method, path, data, options, url,
                   headers, attempt, elapsed, resp, sent, mutations, retryableOnly,
                   now, facade, peer>>

\* the timer of an attempt whose fetch has already rejected fires: it aborts
\* that attempt's own controller, which has nothing in flight
StaleTimerFires(k) ==
    /\ k \in timers
    /\ k # attempt \/ pc \notin {"fetching", "readingBody"}
    /\ timers' = timers \ {k}
    /\ UNCHANGED <<config, ctor, client, pc, method, path, data, options, url,
                   headers, attempt, lastError, elapsed, resp, sleepMs, sleeps,
                   outcome, sent, mutations, retryableOnly, now, facade, peer, failures>>

\* response.json().catch(() => ({}))
EmptyObject == [isNull |-> FALSE, message |-> None]
ParseBody(body) ==
    CASE body = "objectWithMessage" -> [isNull |-> FALSE, message |-> Some("boom")]
      [] body = "object"            -> EmptyObject
      [] body = "null"              -> [isNull |-> TRUE, message |-> None]
      [] OTHER                      -> EmptyObject

\* mutant: the lower bound of the success range is exclusive
IsSuccess_Exclusive(status) == status > 200 /\ status < 300

IsSuccess(status) == status >= 200 /\ status < 300

IsRateLimitRetry(status) == status = 429 /\ attempt < client.retries

\* parseInt(response.headers.get('Retry-After') || '1', 10)
RetryAfter(r) == ParseInt(OrElse(r.retryAfter, <<>>, <<"1">>))

\* responseData.message || `HTTP ${response.status}`
ErrorMessage(responseData, status) ==
    OrElse(responseData.message, "", "HTTP " \o ToString(status))

\* the body has been read (or reading it failed): the response is classified
BodyResolves ==
    /\ pc = "readingBody"
    /\ LET r == resp[1]
           responseData == ParseBody(r.body)
       IN  IF IsSuccess(r.status)
           THEN Return(responseData) /\ lastError' = lastError
           ELSE IF IsRateLimitRetry(r.status)
           THEN Sleep(TimesThousand(RetryAfter(r))) /\ lastError' = lastError
           ELSE IF responseData.isNull
           THEN Catch(TypeError(attempt))
           ELSE Catch(NotiBoostError(ErrorMessage(responseData, r.status),
                                     r.status, responseData, attempt))
    /\ retryableOnly' = (retryableOnly /\ resp[1].status = 429)
    /\ UNCHANGED <<config, ctor, client, method, path, data, options, url, headers,
                   attempt, timers, elapsed, resp, sent, mutations, now, facade, peer, failures>>

\* mutant: the next attempt is also issued while the previous one is pending
SleepElapses_Speculative ==
    /\ pc \in {"sleeping", "fetching"}
    /\ EnterLoop(attempt + 1, method, url, headers, data, options, lastError)
    /\ UNCHANGED <<config, ctor, client, method, path, data, options, url, headers,
                   lastError, sleepMs, sleeps, mutations, retryableOnly, failures,
                   now, facade, peer>>

\* the sleep's timer fires: `continue`, attempt++, and the loop head
SleepElapses ==
    /\ pc = "sleeping"
    /\ EnterLoop(attempt + 1, method, url, headers, data, options, lastError)
    /\ UNCHANGED <<config, ctor, client, method, path, data, options, url, headers,
                   lastError, sleepMs, sleeps, mutations, retryableOnly, now, facade, peer, failures>>

----------------------------------------------------------------------------
(* The caller, while its call is suspended *)

Running == pc \in {"fetching", "readingBody", "sleeping"}

CallerMutatesPayload ==
    /\ Running
    /\ data # None
    /\ mutations < MaxMutations
    /\ data' = Some([data[1] EXCEPT !["user_id"] =
                        IF @ = "u_123" THEN "u_999" ELSE "u_123"])
    /\ mutations' = mutations + 1
    /\ UNCHANGED <<config, ctor, client, pc, method, path, options, url, headers,
                   attempt, lastError, timers, elapsed, resp, sleepMs, sleeps,
                   outcome, sent, retryableOnly, now, facade, peer, failures>>

CallerMutatesOptions ==
    /\ Running
    /\ options.headers # None
    /\ mutations < MaxMutations
    /\ options' = [headers |-> Some(IdemHeaders(
                        IF options.headers[1]["Idempotency-Key"] = "idem-1"
                        THEN "idem-2" ELSE "idem-1"))]
    /\ mutations' = mutations + 1
    /\ UNCHANGED <<config, ctor, client, pc, method, path, data, url, headers,
                   attempt, lastError, timers, elapsed, resp, sleepMs, sleeps,
                   outcome, sent, retryableOnly, now, facade, peer, failures>>

----------------------------------------------------------------------------
(* EventsClient and UsersClient.  facade.op is the operation called,       *)
(* facade.given its argument as the caller passed it, facade.stamp the     *)
(* clock value at which ingest filled occurred_at, facade.prior the fetch  *)
(* calls of the caller's earlier calls.                                    *)

EventStamped == EventA @@ ("occurred_at" :> "2020-01-01T00:00:00.000Z")
EventEmptyStamp == EventA @@ ("occurred_at" :> "")
EventsGiven == {EventA, EventStamped, EventEmptyStamp}
BatchGiven == <<EventA, EventStamped, EventEmptyStamp>>

UserA == ("user_id" :> "u_123") @@ ("name" :> "Ann")
UsersOps == {"create", "get", "update", "delete", "setChannelData"}
\* the request each UsersClient method makes for user u_123
UsersRequest(op) ==
    CASE op = "create" -> <<"POST", "/api/v1/users", Some(UserA)>>
      [] op = "get"    -> <<"GET", "/api/v1/users/" \o "u_123", None>>
      [] op = "update" -> <<"PUT", "/api/v1/users/" \o "u_123", Some(("name" :> "Bob"))>>
      [] op = "delete" -> <<"DELETE", "/api/v1/users/" \o "u_123", None>>
      [] op = "setChannelData" ->
             <<"PUT", "/api/v1/users/" \o "u_123" \o "/channel_data",
               Some(("email" :> "ann@example.com"))>>

FacadeOptions ==
    OptionsGiven
    \cup {[headers |-> Some(("Content-Type" :> "text/plain"))],
          [headers |-> Some(("Authorization" :> "Bearer other")
                            @@ ("X-Trace" :> "t-1"))]}

\* !event.occurred_at
OccurredAtMissing(event) ==
    "occurred_at" \notin DOMAIN event \/ event["occurred_at"] = ""

\* mutant: occurred_at is overwritten whether or not the caller gave one
WithOccurredAt_Always(event, t) == ("occurred_at" :> ToISOString(t)) @@ event

\* the caller's event after ingest's defaulting at clock value t
WithOccurredAt(event, t) ==
    IF OccurredAtMissing(event)
    THEN ("occurred_at" :> ToISOString(t)) @@ event
    ELSE event

Ingest(event, opts) ==
    /\ facade.calls < MaxCalls
    /\ Dispatch(<<"POST", "/api/v1/events", Some(WithOccurredAt(event, now))>>, opts)
    /\ facade' = [facade EXCEPT !.op = "ingest", !.given = Some(event),
                                !.calls = @ + 1,
                                !.stamp = IF OccurredAtMissing(event)
                                          THEN Some(now) ELSE @]

IngestBatch(events, opts) ==
    /\ facade.calls = 0
    /\ Dispatch(<<"POST", "/api/v1/events/batch", Some(("events" :> events))>>, opts)
    /\ facade' = [facade EXCEPT !.op = "ingestBatch",
                                !.given = Some(("events" :> events)),
                                !.calls = @ + 1]

UsersCall(op, opts) ==
    /\ facade.calls = 0
    /\ Dispatch(UsersRequest(op), opts)
    /\ facade' = [facade EXCEPT !.op = op, !.calls = @ + 1]

\* the clock advances
Tick ==
    /\ now < MaxClock
    /\ now' = now + 1
    /\ UNCHANGED <<config, ctor, client, pc, method, path, data, options, url,
                   headers, attempt, lastError, timers, elapsed, resp, sleepMs,
                   sleeps, outcome, sent, mutations, retryableOnly, failures,
                   facade, peer>>

\* the caller's await of an ingest call has ended (by return or by error) and
\* the caller goes on, keeping its event and options objects; the locals of
\* the finished call are gone (timers it left pending change nothing)
CallerContinues ==
    /\ pc = "done"
    /\ facade.op = "ingest"
    /\ facade.calls < MaxCalls
    /\ pc' = "idle"
    /\ attempt' = 0
    /\ lastError' = None
    /\ timers' = {}
    /\ elapsed' = FALSE
    /\ resp' = None
    /\ sleepMs' = Some(0)
    /\ sleeps' = 0
    /\ outcome' = None
    /\ sent' = <<>>
    /\ retryableOnly' = TRUE
    /\ failures' = 0
    /\ facade' = [facade EXCEPT !.prior = @ \o sent]
    /\ UNCHANGED <<config, ctor, client, method, path, data, options, url, headers,
                   mutations, now, peer>>

\* the event and options the caller passes: its own objects on a later call
EventsPassed ==
    IF facade.calls = 0 THEN EventsGiven
    ELSE IF facade.op = "ingest" THEN {data[1]} ELSE {}
OptionsPassed == IF facade.calls = 0 THEN FacadeOptions ELSE {options}

\* no facade call yet
NoFacade == [op |-> "none", given |-> None, calls |-> 0, stamp |-> None,
             prior |-> <<>>]

\* the second call has not started
PeerIdle ==
    [pc |-> "idle", attempt |-> 0, lastError |-> None, sleepMs |-> Some(0),
     resp |-> None, outcome |-> None, attempts |-> 0]

Init ==
    /\ config \in Configs
    /\ ctor = "new"
    /\ client = NoClient
    /\ pc = "idle"
    /\ method = ""
    /\ path = ""
    /\ data = None
    /\ options = [headers |-> None]
    /\ url = ""
    /\ headers = <<>>
    /\ attempt = 0
    /\ lastError = None
    /\ timers = {}
    /\ elapsed = FALSE
    /\ resp = None
    /\ sleepMs = Some(0)
    /\ sleeps = 0
    /\ outcome = None
    /\ sent = <<>>
    /\ mutations = 0
    /\ retryableOnly = TRUE
    /\ failures = 0
    /\ now = 0
    /\ facade = NoFacade
    /\ peer = PeerIdle

Next ==
    \/ Construct
    \/ \E call \in Calls, opts \in OptionsGiven : Request(call, opts)
    \/ \E r \in Responses : FetchResolves(r)
    \/ FetchRejects
    \/ TimerFires
    \/ TimeoutPassesCleared
    \/ \E k \in timers : StaleTimerFires(k)
    \/ BodyResolves
    \/ SleepElapses
    \/ CallerMutatesPayload
    \/ CallerMutatesOptions

Spec == Init /\ [][Next]_vars

----------------------------------------------------------------------------
(* A second call of request on the same client, running concurrently with  *)
(* the first: the same loop on its own locals, the record peer.            *)

\* everything but the locals of the second call
firstVars == <<config, ctor, client, pc, method, path, data, options, url, headers,
               attempt, lastError, timers, elapsed, resp, sleepMs, sleeps, outcome,
               sent, mutations, retryableOnly, failures, now, facade>>

\* the loop head of the second call with attempt = a
PeerEnterLoop(p, a) ==
    IF LoopContinues(a)
    THEN [p EXCEPT !.pc = "fetching", !.attempt = a, !.resp = None,
                   !.attempts = @ + 1]
    ELSE [p EXCEPT !.pc = "done", !.attempt = a,
                   !.outcome = Some([kind |-> "thrown", value |-> p.lastError])]

\* mutant: the attempt counter is kept on the client and shared by the calls
PeerCatch_SharedCounter(p, error) ==
    IF attempt + p.attempt < client.retries /\ error.kind # "NotiBoostError"
    THEN [p EXCEPT !.lastError = Some(error), !.pc = "sleeping",
                   !.sleepMs = Some(BackoffMs(attempt + p.attempt))]
    ELSE [p EXCEPT !.lastError = Some(error), !.pc = "done",
                   !.outcome = Some([kind |-> "thrown",
                                     value |-> Some(Rethrown(error))])]

\* the catch clause of the second call
PeerCatch(p, error) ==
    IF p.attempt < client.retries /\ error.kind # "NotiBoostError"
    THEN [p EXCEPT !.lastError = Some(error), !.pc = "sleeping",
                   !.sleepMs = Some(BackoffMs(p.attempt))]
    ELSE [p EXCEPT !.lastError = Some(error), !.pc = "done",
                   !.outcome = Some([kind |-> "thrown",
                                     value |-> Some(Rethrown(error))])]

\* the classification of the second call's response
PeerClassify(p) ==
    LET r == p.resp[1]
        responseData == ParseBody(r.body)
    IN  IF IsSuccess(r.status)
        THEN [p EXCEPT !.pc = "done",
                       !.outcome = Some([kind |-> "returned",
                                         value |-> Some(responseData)])]
        ELSE IF r.status = 429 /\ p.attempt < client.retries
        THEN [p EXCEPT !.pc = "sleeping",
                       !.sleepMs = TimesThousand(RetryAfter(r))]
        ELSE IF responseData.isNull
        THEN PeerCatch(p, TypeError(p.attempt))
        ELSE PeerCatch(p, NotiBoostError(ErrorMessage(responseData, r.status),
                                         r.status, responseData, p.attempt))

PeerRequest ==
    /\ ctor = "ok"
    /\ peer.pc = "idle"
    /\ peer' = PeerEnterLoop(peer, 0)
    /\ UNCHANGED firstVars

PeerFetchResolves(r) ==
    /\ peer.pc = "fetching"
    /\ peer' = [peer EXCEPT !.pc = "readingBody", !.resp = Some(r)]
    /\ UNCHANGED firstVars

PeerFetchRejects ==
    /\ peer.pc = "fetching"
    /\ peer' = PeerCatch(peer, NetworkError(peer.attempt))
    /\ UNCHANGED firstVars

PeerTimerFires ==
    /\ peer.pc = "fetching"
    /\ peer' = PeerCatch(peer, AbortError(peer.attempt))
    /\ UNCHANGED firstVars

PeerBodyResolves ==
    /\ peer.pc = "readingBody"
    /\ peer' = PeerClassify(peer)
    /\ UNCHANGED firstVars

PeerSleepElapses ==
    /\ peer.pc = "sleeping"
    /\ peer' = PeerEnterLoop(peer, peer.attempt + 1)
    /\ UNCHANGED firstVars

ConcurrentConfig ==
    [apiKey |-> Some("key"), baseURL |-> None, timeout |-> None, retries |-> Some(2)]

ConcurrentResponses ==
    {[status |-> 200, body |-> "object", retryAfter |-> None],
     [status |-> 429, body |-> "object", retryAfter |-> Some(<<"2">>)],
     [status |-> 500, body |-> "objectWithMessage", retryAfter |-> None]}

InitConcurrent == Init /\ config = ConcurrentConfig

NextConcurrent ==
    \/ Construct
    \/ \E call \in Calls : Request(call, [headers |-> None])
    \/ Ingest(EventA, [headers |-> None])
    \/ UsersCall("update", [headers |-> None])
    \/ \E r \in ConcurrentResponses : FetchResolves(r)
    \/ FetchRejects
    \/ TimerFires
    \/ \E k \in timers : StaleTimerFires(k)
    \/ BodyResolves
    \/ SleepElapses
    \/ PeerRequest
    \/ \E r \in ConcurrentResponses : PeerFetchResolves(r)
    \/ PeerFetchRejects
    \/ PeerTimerFires
    \/ PeerBodyResolves
    \/ PeerSleepElapses

SpecConcurrent == InitConcurrent /\ [][NextConcurrent]_vars

----------------------------------------------------------------------------
(* One call of request where timers fire: a timer that is scheduled and    *)
(* not cleared runs its callback eventually, whether it is an attempt's    *)
(* setTimeout(abort) or the setTimeout of sleep. Nothing is assumed of the *)
(* network: fetch and the body read may stay pending for ever.             *)

InitTimersFire ==
    /\ Init
    /\ config.apiKey = Some("key")
    /\ config.baseURL = None
    /\ config.timeout = None

NextTimersFire ==
    \/ Construct
    \/ \E call \in Calls, opts \in OptionsGiven : Request(call, opts)
    \/ \E r \in ConcurrentResponses : FetchResolves(r)
    \/ FetchRejects
    \/ TimerFires
    \/ \E k \in timers : StaleTimerFires(k)
    \/ BodyResolves
    \/ SleepElapses

TimersFire ==
    /\ WF_vars(TimerFires)
    /\ WF_vars(\E k \in timers : StaleTimerFires(k))
    /\ WF_vars(SleepElapses)

SpecTimersFire == InitTimersFire /\ [][NextTimersFire]_vars /\ TimersFire

----------------------------------------------------------------------------
(* The facades on one client with retries 1, with a clock, and a caller    *)
(* that ingests its event object again after the first call has ended.     *)

FacadeConfig ==
    [apiKey |-> Some("key"), baseURL |-> None, timeout |-> None, retries |-> Some(1)]

FacadeResponses ==
    {[status |-> 200, body |-> "object", retryAfter |-> None],
     [status |-> 429, body |-> "object", retryAfter |-> None],
     [status |-> 500, body |-> "objectWithMessage", retryAfter |-> None]}

InitFacade == Init /\ config = FacadeConfig

NextFacade ==
    \/ Construct
    \/ \E e \in EventsPassed, opts \in OptionsPassed : Ingest(e, opts)
    \/ \E opts \in FacadeOptions : IngestBatch(BatchGiven, opts)
    \/ \E op \in UsersOps, opts \in FacadeOptions : UsersCall(op, opts)
    \/ \E r \in FacadeResponses : FetchResolves(r)
    \/ FetchRejects
    \/ TimerFires
    \/ BodyResolves
    \/ SleepElapses
    \/ Tick
    \/ CallerContinues

SpecFacade == InitFacade /\ [][NextFacade]_vars

----------------------------------------------------------------------------
(* Vocabulary of the properties *)

\* the response of the current attempt has been classified
Classified == resp # None /\ pc # "readingBody"
Status == resp[1].status
Thrown == pc = "done" /\ outcome # None /\ outcome[1].kind = "thrown"
Returned == pc = "done" /\ outcome # None /\ outcome[1].kind = "returned"
ThrownValue == outcome[1].value[1]
\* the number of network attempts made so far
Attempts == Len(sent)
\* the retries the caller configured, 3 when it gave none
ConfiguredRetries == IF config.retries = None THEN 3 ELSE config.retries[1]
\* the current attempt ended in a timeout or a network-level failure
TransportFailure ==
    /\ lastError # None
    /\ lastError[1].attempt = attempt
    /\ lastError[1].kind \in {"AbortError", "NetworkError"}

----------------------------------------------------------------------------
\* C1: every response whose status is outside [200,300) and is not 429,
\* whatever its body and whatever the attempt index, makes request raise a
\* NotiBoostError carrying that status, and no attempt follows that response.
C1_FatalStatusRaisesApiError ==
    (Classified /\ (Status < 200 \/ Status >= 300) /\ Status # 429) =>
        /\ Thrown
        /\ ThrownValue.kind = "NotiBoostError"
        /\ ThrownValue.statusCode = Some(Status)
        /\ Attempts = attempt + 1

\* C2: for every configured retries r >= 0 (r = 0 included), and r = 3 when
\* none is given, a call never makes more than r + 1 attempts, and makes
\* exactly r + 1 when every attempt ends in a retryable failure.
C2_AttemptsWithinConfiguredBudget ==
    ConfiguredRetries >= 0 =>
        /\ Attempts <= ConfiguredRetries + 1
        /\ (pc = "done" /\ retryableOnly) => Attempts = ConfiguredRetries + 1

\* C3: a response with status in [200,300) makes request return its parsed
\* JSON body (an empty object for an absent or unparseable body) with no
\* further attempt and no sleep; a first response of 2xx means one attempt.
C3_SuccessReturnsParsedBody ==
    (Classified /\ Status >= 200 /\ Status < 300) =>
        /\ Returned
        /\ outcome[1].value =
             Some(CASE resp[1].body = "objectWithMessage" ->
                         [isNull |-> FALSE, message |-> Some("boom")]
                    [] resp[1].body = "null" -> [isNull |-> TRUE, message |-> None]
                    [] OTHER -> [isNull |-> FALSE, message |-> None])
        /\ Attempts = attempt + 1
        /\ sleeps = attempt
        /\ (attempt = 0 => Attempts = 1 /\ sleeps = 0)

C3_Witness ==
    /\ Returned
    /\ Status = 299
    /\ resp[1].body = "unparseable"
    /\ attempt = 0
    /\ Attempts = 1

\* the seconds a Retry-After value stands for: its decimal number, and 1 when
\* the header is absent or is not a number of seconds
SecondsOf(h) ==
    IF h # None /\ h[1] # <<>> /\ \A i \in 1..Len(h[1]) : IsDigit(h[1][i])
    THEN DecValue(h[1]) ELSE 1

\* C4: a 429 with attempts remaining makes request sleep the Retry-After
\* seconds, 1 second when the header is absent or unparseable, and exactly one
\* attempt follows the sleep.
C4_RateLimitSleepsRetryAfter ==
    /\ (pc = "sleeping" /\ resp # None /\ Status = 429) =>
           sleepMs = Some(1000 * SecondsOf(resp[1].retryAfter))
    /\ (pc \in {"fetching", "readingBody", "sleeping"}) =>
           (Attempts = attempt + 1 /\ sleeps \in {attempt, attempt + 1})

\* C5: a 429 on the attempt whose index equals the configured retries, with
\* no attempt remaining, makes request raise a NotiBoostError with status
\* 429, for every body, with no further attempt and no sleep.
C5_RateLimitExhaustedRaises429 ==
    (Classified /\ Status = 429 /\ attempt = ConfiguredRetries
        /\ attempt = client.retries) =>
        /\ Thrown
        /\ ThrownValue.kind = "NotiBoostError"
        /\ ThrownValue.statusCode = Some(429)
        /\ Attempts = attempt + 1
        /\ sleeps = attempt

\* C6: a timeout or network failure on attempt N < retries is followed by a
\* backoff of exactly 2^N seconds before the next attempt (1s, 2s, 4s, ...).
C6_ExponentialBackoff ==
    (TransportFailure /\ attempt < client.retries) =>
        /\ pc = "sleeping"
        /\ sleepMs = Some(1000 * Pow2(attempt))
        /\ (attempt = 0 => sleepMs = Some(1000))
        /\ (attempt = 1 => sleepMs = Some(2000))
        /\ (attempt = 2 => sleepMs = Some(4000))
        /\ Attempts = attempt + 1
        /\ sleeps = attempt + 1

C6_Witness ==
    /\ pc = "sleeping"
    /\ TransportFailure
    /\ lastError[1].kind = "AbortError"
    /\ attempt = 2
    /\ sleepMs = Some(4000)
    /\ retryableOnly

\* C7: a timeout or network failure on the last permitted attempt is raised
\* as it is: not a NotiBoostError, without a status code, and the failure of
\* the final attempt, not of an earlier one.
C7_TransportFailurePropagatesRaw ==
    (TransportFailure /\ attempt = client.retries) =>
        /\ Thrown
        /\ ThrownValue.kind \in {"AbortError", "NetworkError"}
        /\ ThrownValue.kind = lastError[1].kind
        /\ ThrownValue.statusCode = None
        /\ ThrownValue.attempt = client.retries
        /\ Attempts = client.retries + 1

C7_Witness ==
    /\ Thrown
    /\ outcome[1].value # None
    /\ ThrownValue.kind = "NetworkError"
    /\ ThrownValue.attempt = 3
    /\ Attempts = 4
    /\ config.retries = None

\* C8: every attempt is bounded by the timeout: once the timeout has elapsed
\* with the attempt's outcome not classified, the in-flight call is aborted
\* and the attempt counts as a retryable transport failure.
C8_AttemptBoundedByTimeout ==
    elapsed =>
        /\ lastError = Some(AbortError(attempt))
        /\ pc \in {"sleeping", "done"}
        /\ (attempt < client.retries =>
                pc = "sleeping" /\ sleepMs = Some(1000 * Pow2(attempt)))
        /\ (attempt >= client.retries =>
                Thrown /\ ThrownValue.kind = "AbortError")

\* C9: constructing the client with an absent or empty API key raises at
\* construction, and such a client never makes a network attempt.
C9_MissingApiKeyRaisesAtConstruction ==
    /\ (config.apiKey \in {None, Some("")} /\ ctor # "new") =>
           (ctor = "threw" /\ pc = "idle" /\ Attempts = 0)
    /\ ctor = "new" => Attempts = 0

C9_Witness ==
    /\ ctor = "threw"
    /\ config.apiKey = Some("")
    /\ Attempts = 0

\* C10: all attempts of a call send the same method, URL and headers (a
\* caller's Idempotency-Key included), and the same body as long as the
\* caller has not changed the payload in between.
C10_AttemptsSendSameRequest ==
    \A i, j \in 1..Len(sent) :
        /\ sent[i].method = sent[j].method
        /\ sent[i].url = sent[j].url
        /\ sent[i].headers = sent[j].headers
        /\ sent[i].version = sent[j].version => sent[i].body = sent[j].body
        /\ sent[i].attempt = i - 1

C10_Witness ==
    /\ Len(sent) = 3
    /\ "Idempotency-Key" \in DOMAIN sent[1].headers
    /\ sent[1].headers["Idempotency-Key"] = "idem-1"
    /\ options.headers = Some(IdemHeaders("idem-2"))
    /\ sent[2].version = 1
    /\ sent[1].body # None
    /\ lastError # None /\ lastError[1].kind = "NetworkError" /\ lastError[1].attempt = 0
    /\ resp # None /\ Status = 429 /\ pc = "sleeping"

----------------------------------------------------------------------------
\* C13: 429 retries and network-failure retries share one attempt counter
\* that is never reset: the attempts stay within the one budget, a 429 is
\* retried only while the counter is below retries, and the backoff exponent
\* after a network failure is the number of all earlier attempts of the call.
C13_SharedAttemptCounter ==
    /\ ctor = "ok" => Attempts <= client.retries + 1
    /\ Running => attempt = Attempts - 1
    /\ (pc = "sleeping" /\ resp # None /\ Status = 429) => attempt < client.retries
    /\ (TransportFailure /\ attempt < client.retries) =>
           sleepMs = Some(1000 * Pow2(Attempts - 1))

C13_Witness ==
    /\ pc = "sleeping"
    /\ TransportFailure
    /\ Attempts = 3
    /\ failures = 1
    /\ retryableOnly
    /\ sleepMs = Some(4000)

\* C14: at most one attempt is in flight; an attempt is issued only when the
\* previous one has concluded and the sleep that followed it has elapsed,
\* never during a sleep or while another attempt is pending.
C14_StrictlySequential ==
    [][Len(sent') # Len(sent) =>
          /\ Len(sent') = Len(sent) + 1
          /\ pc \notin {"fetching", "readingBody"}
          /\ Len(sent) > 0 => (pc = "sleeping" /\ sleeps = Len(sent))
          /\ pc' = "fetching"
          /\ sleeps' = sleeps]_vars

C14_Witness ==
    /\ pc = "fetching"
    /\ attempt = 2
    /\ Attempts = 3
    /\ sleeps = 2

\* the locals of the first call of request
firstLocals == <<pc, method, path, url, headers, attempt, lastError, timers, resp,
                 sleepMs, sleeps, outcome, sent>>
PeerRunning == peer.pc \in {"fetching", "readingBody", "sleeping"}
\* the second call sleeps after a timeout or a network-level failure
PeerTransportFailure ==
    /\ peer.pc = "sleeping"
    /\ peer.resp = None
    /\ peer.lastError # None
    /\ peer.lastError[1].attempt = peer.attempt

\* C15: once constructed the client's configuration never changes, whatever
\* the calls do and however they interleave; a step of one call leaves the
\* locals of the other alone, and the attempt counter, backoff delay and
\* outcome of each call follow from that call's own attempts and responses.
C15_ConfigFixedCallsIndependent ==
    /\ [](ctor = "ok" =>
            client = [apiKey |-> "key", baseURL |-> DefaultBaseURL,
                      timeout |-> DefaultTimeout, retries |-> 2])
    /\ [][ctor = "ok" => client' = client]_vars
    /\ [][peer' # peer => firstLocals' = firstLocals]_vars
    /\ [][firstLocals' # firstLocals => peer' = peer]_vars
    /\ [](/\ Running => attempt = Attempts - 1
          /\ (TransportFailure /\ attempt < client.retries) =>
                 sleepMs = Some(1000 * Pow2(attempt))
          /\ Returned => (resp # None /\ IsSuccess(Status))
          /\ PeerRunning => peer.attempt = peer.attempts - 1
          /\ PeerTransportFailure =>
                 peer.sleepMs = Some(1000 * Pow2(peer.attempt))
          /\ (peer.pc = "sleeping" /\ peer.resp # None) =>
                 /\ peer.resp[1].status = 429
                 /\ peer.sleepMs = Some(2000)
          /\ (peer.pc = "done" /\ peer.outcome[1].kind = "returned") =>
                 (peer.resp # None /\ IsSuccess(peer.resp[1].status))
          /\ (peer.pc = "done" /\ peer.outcome[1].kind = "thrown"
                /\ peer.outcome[1].value[1].kind = "NotiBoostError") =>
                 /\ peer.resp # None
                 /\ peer.outcome[1].value[1].statusCode = Some(peer.resp[1].status)
          /\ ctor = "ok" => peer.attempts <= client.retries + 1)

\* the first call is on its second attempt after one failure while the
\* second call, started later, still backs off from its first
C15_Witness ==
    /\ pc = "fetching"
    /\ attempt = 1
    /\ failures = 1
    /\ PeerTransportFailure
    /\ peer.attempt = 0
    /\ peer.sleepMs = Some(1000)

\* C16: every call of request that has started eventually returns or raises,
\* assuming only that timers fire, whatever the network does.
C16_EveryCallTerminates == Running ~> (pc = "done")

\* C17: the timeout timer of an attempt acts on that attempt only: a timer
\* left pending by an attempt whose fetch rejected fires later without
\* aborting or failing anything else.
C17_TimerAbortsOwnAttemptOnly ==
    [][(\E k \in timers : /\ k \notin timers'
                          /\ k # attempt \/ pc \notin {"fetching", "readingBody"}) =>
          /\ pc' = pc
          /\ attempt' = attempt
          /\ lastError' = lastError
          /\ resp' = resp
          /\ outcome' = outcome
          /\ sent' = sent
          /\ sleeps' = sleeps
          /\ failures' = failures
          /\ peer' = peer]_vars

\* the timer of attempt 0, whose fetch rejected, has fired while attempt 1 of
\* this call and an attempt of another call are pending
C17_Witness ==
    /\ pc = "fetching"
    /\ attempt = 1
    /\ lastError = Some(NetworkError(0))
    /\ failures = 1
    /\ timers = {1}
    /\ peer.pc = "fetching"

\* the statement after the loop has run
AfterLoop == pc = "done" /\ attempt > client.retries

\* C19: with retries >= 0 the iteration with attempt = retries never
\* continues, so the throw after the loop is not reached; with a negative
\* retries it is reached with no attempt made and raises undefined.
C19_AfterLoopThrowUnreachable ==
    /\ (ctor = "ok" /\ client.retries >= 0) =>
           (~AfterLoop /\ (pc = "sleeping" => attempt < client.retries))
    /\ AfterLoop =>
           /\ client.retries < 0
           /\ Attempts = 0
           /\ outcome = Some([kind |-> "thrown", value |-> None])
    /\ (ctor = "ok" /\ client.retries < 0 /\ pc # "idle") => AfterLoop

C19_Witness ==
    /\ AfterLoop
    /\ config.retries = Some(-1)
    /\ Attempts = 0
    /\ outcome = Some([kind |-> "thrown", value |-> None])

----------------------------------------------------------------------------
(* The facades *)

\* the value of key k in a serialized object, absent when it has no such key
Field(body, k) ==
    LET at == {i \in 1..Len(body) : body[i][1] = k}
    IN  IF at = {} THEN None ELSE Some(body[CHOOSE i \in at : TRUE][2])

\* ingestBatch sends every event with the occurred_at the caller gave it, or none
BatchSentAsGiven(call) ==
    /\ call.method = "POST"
    /\ call.url = "https://api.notiboost.com/api/v1/events/batch"
    /\ call.body # None
    /\ LET given == facade.given[1]["events"]
           events == Field(call.body[1], "events")
       IN  /\ events # None
           /\ Len(events[1]) = Len(given)
           /\ \A n \in 1..Len(given) :
                  Field(events[1][n], "occurred_at") =
                      IF "occurred_at" \in DOMAIN given[n]
                      THEN Some(given[n]["occurred_at"]) ELSE None

\* ingest sends a POST /api/v1/events with a non-empty occurred_at
IngestSentStamped(call) ==
    /\ call.method = "POST"
    /\ call.url = "https://api.notiboost.com/api/v1/events"
    /\ call.body # None
    /\ Field(call.body[1], "occurred_at") # None
    /\ Field(call.body[1], "occurred_at") # Some("")

\* C11 (as claimed): ingest of an event without occurred_at sends a non-empty
\* timestamp in occurred_at; with occurred_at already set, whatever its
\* value, the body carries that value unchanged; ingestBatch never fills or
\* alters occurred_at.
C11_IngestKeepsAnyGivenOccurredAt ==
    \A i \in 1..Len(sent) :
        /\ facade.op = "ingest" =>
               /\ IngestSentStamped(sent[i])
               /\ "occurred_at" \in DOMAIN facade.given[1] =>
                      Field(sent[i].body[1], "occurred_at") =
                          Some(facade.given[1]["occurred_at"])
               /\ "occurred_at" \notin DOMAIN facade.given[1] =>
                      \E t \in 0..now :
                          Field(sent[i].body[1], "occurred_at") = Some(ToISOString(t))
        /\ facade.op = "ingestBatch" => BatchSentAsGiven(sent[i])

\* C11 (amended): ingest of an event whose occurred_at is absent or the empty
\* string sends the current timestamp, a non-empty string, in occurred_at;
\* with occurred_at set to a non-empty string the body carries that value
\* unchanged; ingestBatch never fills or alters occurred_at.
C11_IngestDefaultsOccurredAt ==
    \A i \in 1..Len(sent) :
        /\ facade.op = "ingest" =>
               /\ IngestSentStamped(sent[i])
               /\ ("occurred_at" \in DOMAIN facade.given[1]
                     /\ facade.given[1]["occurred_at"] # "") =>
                      Field(sent[i].body[1], "occurred_at") =
                          Some(facade.given[1]["occurred_at"])
               /\ ("occurred_at" \notin DOMAIN facade.given[1]
                     \/ facade.given[1]["occurred_at"] = "") =>
                      \E t \in 0..now :
                          Field(sent[i].body[1], "occurred_at") = Some(ToISOString(t))
        /\ facade.op = "ingestBatch" => BatchSentAsGiven(sent[i])

C11_Witness ==
    /\ facade.op = "ingest"
    /\ facade.calls = 1
    /\ facade.given = Some(EventEmptyStamp)
    /\ Len(sent) = 2
    /\ Field(sent[2].body[1], "occurred_at") = Some(ToISOString(1))

\* C12: every attempt of every request carries Authorization: Bearer <apiKey>
\* and Content-Type: application/json, except that a caller's header with
\* the same key replaces the default; the caller's other headers are added.
C12_DefaultHeadersOnEveryAttempt ==
    \A i \in 1..Len(sent) :
        LET h == sent[i].headers
            own == IF options.headers = None THEN <<>> ELSE options.headers[1]
        IN  /\ DOMAIN h = {"Authorization", "Content-Type"} \cup DOMAIN own
            /\ \A k \in DOMAIN own : h[k] = own[k]
            /\ "Authorization" \notin DOMAIN own => h["Authorization"] = "Bearer key"
            /\ "Content-Type" \notin DOMAIN own => h["Content-Type"] = "application/json"

C12_Witness ==
    /\ Len(sent) = 2
    /\ options.headers = Some(("Content-Type" :> "text/plain"))
    /\ sent[2].headers["Content-Type"] = "text/plain"
    /\ sent[2].headers["Authorization"] = "Bearer key"
    /\ method = "GET"

\* C18: ingest fixes the defaulted occurred_at once, before the loop, in the
\* caller's own event object: every attempt carries it, the caller's object
\* holds it after the call has ended, and a later ingest of the same object
\* sends it again, not a new current time.
C18_OccurredAtFixedInCallersObject ==
    /\ (facade.op = "ingest" /\ facade.calls = 1
          /\ "occurred_at" \notin DOMAIN facade.given[1]) => facade.stamp # None
    /\ facade.stamp # None =>
           LET v == ToISOString(facade.stamp[1])
           IN  /\ facade.op = "ingest"
               /\ data # None
               /\ "occurred_at" \in DOMAIN data[1]
               /\ data[1]["occurred_at"] = v
               /\ \A i \in 1..Len(sent) :
                      Field(sent[i].body[1], "occurred_at") = Some(v)
               /\ \A i \in 1..Len(facade.prior) :
                      Field(facade.prior[i].body[1], "occurred_at") = Some(v)

\* a second ingest of the object, two ticks after the first one stamped it,
\* has made two attempts and ended by an error
C18_Witness ==
    /\ facade.calls = 2
    /\ facade.stamp = Some(0)
    /\ now = 2
    /\ Len(facade.prior) = 2
    /\ facade.prior[2].version = 0
    /\ Len(sent) = 2
    /\ Thrown
    /\ data[1]["occurred_at"] = ToISOString(0)

====
